---- MODULE Spec2Model ----
(***************************************************************************)
(* Visibility-polygon core of Warhorst/raycasting (src/src/raycasting.rs). *)
(*                                                                         *)
(* Numbers.  The program computes in f32 (IEEE 754 binary32).  A finite    *)
(* f32 value is the pair <<m, e>> that stands for m * 2^e, with m an odd   *)
(* integer of at most 24 bits; 0.0 is <<0, 0>> and NaN is <<0, 1>>.  Every *)
(* arithmetic operation rounds its exact result to the nearest such value, *)
(* ties to even, as the hardware does.  Not modelled: the sign of zero     *)
(* (no input is -0.0 and no comparison of the code tells -0.0 from 0.0),   *)
(* infinities, overflow and subnormals (the values stay far from both      *)
(* ends of the exponent range).                                            *)
(***************************************************************************)
EXTENDS Integers, Sequences, FiniteSets, TLC

\* ------------------------------------------------------------------------
\* Bounds of the model
\* ------------------------------------------------------------------------
\* at most MaxWalls tiles of the map are walls
MaxWalls == 1

\* segment endpoints of the classifier specifications lie on 0..GridX x 0..GridY
GridX == 3
GridY == 3

\* ray directions of the ray specification have components in -DirMax..DirMax
DirMax == 2

\* the room of the engine specification is the square [0, RoomSize] x [0, RoomSize],
\* with at most MaxObstacles obstacle segments between its inner grid points
RoomSize == 3
MaxObstacles == 1

\* ------------------------------------------------------------------------
\* f32 arithmetic
\* ------------------------------------------------------------------------
Abs(n) == IF n < 0 THEN -n ELSE n

Sign(n) == IF n < 0 THEN -1 ELSE IF n > 0 THEN 1 ELSE 0

\* number of bits of the natural number n < 2^31
BitLen4(n) == <<0, 1, 2, 2, 3, 3, 3, 3, 4, 4, 4, 4, 4, 4, 4, 4>>[n + 1]

BitLen8(n) == IF n < 16 THEN BitLen4(n) ELSE 4 + BitLen4(n \div 16)

BitLen(n) ==
    IF n < 65536
    THEN (IF n < 256 THEN BitLen8(n) ELSE 8 + BitLen8(n \div 256))
    ELSE (IF n < 16777216 THEN 16 + BitLen8(n \div 65536) ELSE 24 + BitLen8(n \div 16777216))

\* the pair with an odd mantissa that stands for n * 2^e, n > 0
RECURSIVE Canon(_, _)
Canon(n, e) ==
    IF n % 2 = 1 THEN <<n, e>>
    ELSE IF n % 256 = 0 THEN Canon(n \div 256, e + 8)
    ELSE Canon(n \div 2, e + 1)

Zero == <<0, 0>>

NaN == <<0, 1>>

IsNaN(a) == a = NaN

WithSign(s, a) == IF s < 0 THEN <<-a[1], a[2]>> ELSE a

\* the f32 value of the integer n, |n| < 2^24
F(n) == IF n = 0 THEN Zero ELSE WithSign(n, Canon(Abs(n), 0))

One == F(1)

\* round to nearest, ties to even, of (mag + f) * 2^e to 24 bits, where mag > 0
\* and f is 0 if ~sticky and some fraction strictly between 0 and 1 if sticky;
\* callers pass at least 26 bits of mag when sticky.
\* RoundUp: q is the kept part, r the dropped bits, half their half-way value
RoundUp(q, r, half, e, sticky) ==
    Canon(IF r > half \/ (r = half /\ (sticky \/ q % 2 = 1)) THEN q + 1 ELSE q, e)

\* sh is the number of bits to drop
RoundShift(mag, e, sticky, sh) ==
    IF sh <= 0 THEN Canon(mag, e)
    ELSE RoundUp(mag \div (2 ^ sh), mag % (2 ^ sh), 2 ^ (sh - 1), e + sh, sticky)

RoundMag(mag, e, sticky) == RoundShift(mag, e, sticky, BitLen(mag) - 24)

F32Neg(a) == IF IsNaN(a) THEN NaN ELSE <<-a[1], a[2]>>

\* the product of two 24-bit magnitudes as <<hi, lo>>, standing for hi * 2^24 + lo
Carry48(h, los) == <<h + los \div 16777216, los % 16777216>>

Split48(hh, mid, ll) == Carry48(hh + mid \div 4096, (mid % 4096) * 4096 + ll)

Product48(ma, mb) ==
    Split48((ma \div 4096) * (mb \div 4096),
            (ma \div 4096) * (mb % 4096) + (ma % 4096) * (mb \div 4096),
            (ma % 4096) * (mb % 4096))

\* the top 30 bits of hi * 2^24 + lo, rounded; k is the number of bits of lo among them
MulTop(hi, lo, e, k) ==
    RoundMag(hi * (2 ^ k) + lo \div (2 ^ (24 - k)), e + 24 - k, lo % (2 ^ (24 - k)) # 0)

MulWide(p, e) == MulTop(p[1], p[2], e, 30 - BitLen(p[1]))

MulMag(ma, mb, e) ==
    IF ma <= 2147483647 \div mb THEN RoundMag(ma * mb, e, FALSE)
    ELSE MulWide(Product48(ma, mb), e)

\* a * b
F32Mul(a, b) ==
    IF IsNaN(a) \/ IsNaN(b) THEN NaN
    ELSE IF a[1] = 0 \/ b[1] = 0 THEN Zero
    ELSE WithSign(Sign(a[1]) * Sign(b[1]), MulMag(Abs(a[1]), Abs(b[1]), a[2] + b[2]))

\* the sum x * 2^e when it fits into 31 bits
AddExact(x, e) ==
    IF x = 0 THEN Zero ELSE WithSign(Sign(x), RoundMag(Abs(x), e, FALSE))

\* the sum (y + f) * 2^e with 0 < f < 1
AddRounded(y, e) ==
    IF y > 0 THEN RoundMag(y, e, TRUE) ELSE WithSign(-1, RoundMag(-y - 1, e, TRUE))

\* drop the k low bits of the sum, remembering that they are not all zero
AddSticky(hi, lw, k, la) ==
    AddRounded(hi[1] * (2 ^ (26 - la))
                   + (IF k >= 24 THEN (IF lw[1] < 0 THEN -1 ELSE 0) ELSE lw[1] \div (2 ^ k)),
               lw[2] + k)

\* d is the difference of the exponents, la the number of bits of hi
AddShifted(hi, lw, d, la) ==
    IF la + d <= 30 THEN AddExact(hi[1] * (2 ^ d) + lw[1], lw[2])
    ELSE AddSticky(hi, lw, la + d - 26, la)

\* hi has the larger exponent
AddAligned(hi, lw) == AddShifted(hi, lw, hi[2] - lw[2], BitLen(Abs(hi[1])))

\* a + b
F32Add(a, b) ==
    IF IsNaN(a) \/ IsNaN(b) THEN NaN
    ELSE IF a[1] = 0 THEN b
    ELSE IF b[1] = 0 THEN a
    ELSE IF a[2] >= b[2] THEN AddAligned(a, b)
    ELSE AddAligned(b, a)

\* a - b
F32Sub(a, b) == F32Add(a, F32Neg(b))

\* long division of rem / mb, up to 7 quotient bits a step, until q has 26 bits:
\* <<q, k>> with q = floor(ma * 2^k / mb)
RECURSIVE DivLoop(_, _, _, _)
DivStep(q, rem, mb, k, c) ==
    DivLoop(q * (2 ^ c) + (rem * (2 ^ c)) \div mb, (rem * (2 ^ c)) % mb, mb, k + c)

DivLoop(q, rem, mb, k) ==
    IF q >= 33554432 THEN <<q, k>>
    ELSE DivStep(q, rem, mb, k, IF BitLen(q) >= 19 THEN 26 - BitLen(q) ELSE 7)

DivRound(qk, e) == RoundMag(qk[1], e - qk[2], TRUE)

DivMag(ma, mb, e) ==
    IF ma % mb = 0 THEN RoundMag(ma \div mb, e, FALSE)
    ELSE DivRound(DivLoop(ma \div mb, ma % mb, mb, 0), e)

\* a / b; 0.0 / 0.0 is NaN.  The code never divides a non-zero value by zero:
\* r.dot(r) is zero only when r is, and then so is the dividend, and it
\* divides by r_cross_s only after finding it non-zero.
F32Div(a, b) ==
    IF IsNaN(a) \/ IsNaN(b) \/ b[1] = 0 THEN NaN
    ELSE IF a[1] = 0 THEN Zero
    ELSE WithSign(Sign(a[1]) * Sign(b[1]), DivMag(Abs(a[1]), Abs(b[1]), a[2] - b[2]))

\* ma * 2^ea < mb * 2^eb for odd ma, mb > 0
MagLessAt(ma, ea, mb, eb) ==
    IF BitLen(ma) + ea # BitLen(mb) + eb THEN BitLen(ma) + ea < BitLen(mb) + eb
    ELSE IF ea >= eb THEN ma * (2 ^ (ea - eb)) < mb
    ELSE ma < mb * (2 ^ (eb - ea))

\* |a| < |b| for non-zero finite values
MagLess(a, b) == MagLessAt(Abs(a[1]), a[2], Abs(b[1]), b[2])

SignedLess(a, b, sa, sb) ==
    IF sa # sb THEN sa < sb
    ELSE IF sa = 0 THEN FALSE
    ELSE IF sa > 0 THEN MagLess(a, b)
    ELSE MagLess(b, a)

\* a < b: false when either side is NaN
F32Less(a, b) == ~IsNaN(a) /\ ~IsNaN(b) /\ SignedLess(a, b, Sign(a[1]), Sign(b[1]))

\* a == b: false when either side is NaN
F32Eq(a, b) == ~IsNaN(a) /\ ~IsNaN(b) /\ a = b

\* a <= b: false when either side is NaN
F32Leq(a, b) == F32Less(a, b) \/ F32Eq(a, b)

\* (0.0..=1.0).contains(&t)
InUnitInterval(t) == F32Leq(Zero, t) /\ F32Leq(t, One)

\* integer square root of n with its remainder: <<r, n - r * r>>
ISqrtBit(r, rem) ==
    IF rem >= 4 * r + 1 THEN <<2 * r + 1, rem - (4 * r + 1)>> ELSE <<2 * r, rem>>

ISqrtStep(prev, d) == ISqrtBit(prev[1], prev[2] * 4 + d)

RECURSIVE ISqrt(_)
ISqrt(n) == IF n = 0 THEN <<0, 0>> ELSE ISqrtStep(ISqrt(n \div 4), n % 4)

\* further bits of the square root until it is exact or has 26 bits
RECURSIVE SqrtLoop(_, _, _)
SqrtLoop(r, rem, k) ==
    IF rem = 0 \/ r >= 33554432 THEN <<r, rem, k>>
    ELSE IF 4 * rem >= 4 * r + 1 THEN SqrtLoop(2 * r + 1, 4 * rem - (4 * r + 1), k + 1)
    ELSE SqrtLoop(2 * r, 4 * rem, k + 1)

SqrtRound(rk, e) == RoundMag(rk[1], (e \div 2) - rk[3], rk[2] # 0)

SqrtFrom(r0, e) == SqrtRound(SqrtLoop(r0[1], r0[2], 0), e)

\* the square root of n * 2^e for even e
SqrtEven(n, e) == SqrtFrom(ISqrt(n), e)

\* a.sqrt() for a >= 0, correctly rounded
F32Sqrt(a) ==
    IF IsNaN(a) \/ a[1] < 0 THEN NaN
    ELSE IF a[1] = 0 THEN Zero
    ELSE IF a[2] % 2 = 1 THEN SqrtEven(2 * a[1], a[2] - 1)
    ELSE SqrtEven(a[1], a[2])

\* the exact product |a| * |b| of two non-zero values as <<e, hi, lo>>, standing
\* for (hi * 2^24 + lo) * 2^e with the top bit of the 48 set
ExactShift(hi, lo, e, k) ==
    IF k >= 24 THEN <<e - k, lo * (2 ^ (k - 24)), 0>>
    ELSE <<e - k, hi * (2 ^ k) + lo \div (2 ^ (24 - k)), (lo % (2 ^ (24 - k))) * (2 ^ k)>>

ExactNorm(p, e) ==
    ExactShift(p[1], p[2], e, IF p[1] = 0 THEN 48 - BitLen(p[2]) ELSE 24 - BitLen(p[1]))

ExactProduct(a, b) == ExactNorm(Product48(Abs(a[1]), Abs(b[1])), a[2] + b[2])

\* x < y for exact products as above
ProductLess(x, y) ==
    IF x[1] # y[1] THEN x[1] < y[1]
    ELSE IF x[2] # y[2] THEN x[2] < y[2]
    ELSE x[3] < y[3]

SignedProductLess(a, b, c, d, sx, sy) ==
    IF sx # sy THEN sx < sy
    ELSE IF sx = 0 THEN FALSE
    ELSE IF sx > 0 THEN ProductLess(ExactProduct(a, b), ExactProduct(c, d))
    ELSE ProductLess(ExactProduct(c, d), ExactProduct(a, b))

\* a * b < c * d, exactly, for finite values
ExactMulLess(a, b, c, d) ==
    SignedProductLess(a, b, c, d, Sign(a[1]) * Sign(b[1]), Sign(c[1]) * Sign(d[1]))

\* f32::MAX
F32Max == <<16777215, 104>>

\* 0.01_f32, and cosf and sinf of it
Rad001 == <<5368709, -29>>

Cos001 == <<16776377, -24>>

Sin001 == <<10737239, -30>>

\* radians.cos() and radians.sin() for the two arguments the code passes
F32Cos(radians) == Cos001

F32Sin(radians) == IF radians[1] < 0 THEN F32Neg(Sin001) ELSE Sin001

\* ------------------------------------------------------------------------
\* Vec2
\* ------------------------------------------------------------------------
Vec(x, y) == [x |-> x, y |-> y]

IntVec(x, y) == Vec(F(x), F(y))

VecAdd(a, b) == Vec(F32Add(a.x, b.x), F32Add(a.y, b.y))

VecSub(a, b) == Vec(F32Sub(a.x, b.x), F32Sub(a.y, b.y))

VecMul(a, k) == Vec(F32Mul(a.x, k), F32Mul(a.y, k))

VecDiv(a, k) == Vec(F32Div(a.x, k), F32Div(a.y, k))

dot(a, b) == F32Add(F32Mul(a.x, b.x), F32Mul(a.y, b.y))

cross_product(a, b) == F32Sub(F32Mul(a.x, b.y), F32Mul(a.y, b.x))

\* ------------------------------------------------------------------------
\* Segment and IntersectionStatus
\* ------------------------------------------------------------------------
Seg(a, b) == [a |-> a, b |-> b]

\* Option::None, and the value of a result not yet computed
None == [kind |-> "None"]

Intersecting(p) == [kind |-> "Intersecting", point |-> p]

CollinearIntersecting == [kind |-> "CollinearIntersecting"]

CollinearNotIntersecting == [kind |-> "CollinearNotIntersecting"]

NotIntersecting == [kind |-> "NotIntersecting"]

\* the overlap test with exclusive bounds (0.0..1.0 written for 0.0..=1.0)
CollinearOverlapExclusive(t0, t1) ==
    \/ (F32Less(Zero, t0) /\ F32Less(t0, One))
    \/ (F32Less(Zero, t1) /\ F32Less(t1, One))
    \/ (F32Less(t0, Zero) /\ F32Less(One, t1))

\* the overlap test of the collinear branch
CollinearOverlap(t0, t1) ==
    \/ InUnitInterval(t0)
    \/ InUnitInterval(t1)
    \/ (F32Leq(t0, Zero) /\ F32Leq(One, t1))

\* Both calculate_intersection functions are written with the let-bindings of
\* the source (p, r, s, q_minus_p, r_cross_s, q_minus_p_cross_r, t0, t1, t, u)
\* as parameters of the definitions below, so that each is computed once.

\* the collinear branch, from t0 and t1
CollinearStatus(t0, t1) ==
    IF CollinearOverlap(t0, t1) THEN CollinearIntersecting ELSE CollinearNotIntersecting

\* t1 = t0 + s.dot(r) / r.dot(r)
CollinearFrom(t0, s_dot_r_by_r_dot_r) == CollinearStatus(t0, F32Add(t0, s_dot_r_by_r_dot_r))

\* t0 = q_minus_p.dot(r) / r.dot(r)
CollinearBranch(q_minus_p, r, s) ==
    CollinearFrom(F32Div(dot(q_minus_p, r), dot(r, r)), F32Div(dot(s, r), dot(r, r)))

\* the last test of Segment::calculate_intersection
SegmentCrossing(p, r, r_cross_s, t, u) ==
    IF ~F32Eq(r_cross_s, Zero) /\ InUnitInterval(t) /\ InUnitInterval(u)
    THEN Intersecting(VecAdd(p, VecMul(r, t)))
    ELSE NotIntersecting

SegmentBranches(p, r, s, q_minus_p, r_cross_s, q_minus_p_cross_r) ==
    IF F32Eq(r_cross_s, Zero) /\ F32Eq(q_minus_p_cross_r, Zero)
    THEN CollinearBranch(q_minus_p, r, s)
    ELSE IF F32Eq(r_cross_s, Zero) /\ ~F32Eq(q_minus_p_cross_r, Zero)
    THEN NotIntersecting
    ELSE SegmentCrossing(p, r, r_cross_s,
                         cross_product(q_minus_p, VecDiv(s, r_cross_s)),
                         cross_product(q_minus_p, VecDiv(r, r_cross_s)))

SegmentVectors(p, r, s, q_minus_p) ==
    SegmentBranches(p, r, s, q_minus_p, cross_product(r, s), cross_product(q_minus_p, r))

\* Segment::calculate_intersection
Segment_calculate_intersection(self, other) ==
    SegmentVectors(self.a, VecSub(self.b, self.a), VecSub(other.b, other.a), VecSub(other.a, self.a))

\* ------------------------------------------------------------------------
\* Ray
\* ------------------------------------------------------------------------
Ray(origin, direction) == [origin |-> origin, direction |-> direction]

\* the last test of Ray::calculate_intersection
RayCrossing(p, r, r_cross_s, t, u) ==
    IF ~F32Eq(r_cross_s, Zero) /\ F32Leq(Zero, t) /\ InUnitInterval(u)
    THEN Intersecting(VecAdd(p, VecMul(r, t)))
    ELSE NotIntersecting

RayBranches(p, r, s, q_minus_p, r_cross_s, q_minus_p_cross_r) ==
    IF F32Eq(r_cross_s, Zero) /\ F32Eq(q_minus_p_cross_r, Zero)
    THEN CollinearBranch(q_minus_p, r, s)
    ELSE IF F32Eq(r_cross_s, Zero) /\ ~F32Eq(q_minus_p_cross_r, Zero)
    THEN NotIntersecting
    ELSE RayCrossing(p, r, r_cross_s,
                     cross_product(q_minus_p, VecDiv(s, r_cross_s)),
                     cross_product(q_minus_p, VecDiv(r, r_cross_s)))

RayVectors(p, r, s, q_minus_p) ==
    RayBranches(p, r, s, q_minus_p, cross_product(r, s), cross_product(q_minus_p, r))

\* Ray::calculate_intersection
Ray_calculate_intersection(self, segment) ==
    RayVectors(self.origin, self.direction, VecSub(segment.b, segment.a),
               VecSub(segment.a, self.origin))

\* Ray::rotate
rotate(self, radians) ==
    Ray(self.origin,
        Vec(F32Sub(F32Mul(self.direction.x, F32Cos(radians)), F32Mul(self.direction.y, F32Sin(radians))),
            F32Add(F32Mul(self.direction.x, F32Sin(radians)), F32Mul(self.direction.y, F32Cos(radians)))))

\* ------------------------------------------------------------------------
\* calculate_intersection_points
\* ------------------------------------------------------------------------
\* calculate_distance
DistanceOf(dx, dy) == F32Sqrt(F32Add(F32Mul(dx, dx), F32Mul(dy, dy)))

calculate_distance(p1, p2) == DistanceOf(F32Sub(p2.x, p1.x), F32Sub(p2.y, p1.y))

\* calculate_angle: the angle atan2(dy, dx) in degrees, kept as the pair of
\* differences it is the angle of.  atan2 and to_degrees are monotone, so the
\* order of two angles is the order of the two directions; their rounding,
\* which can only merge directions closer than one unit in the last place of
\* the angle, is not modelled.
calculate_angle(p1, p2) ==
    [dy |-> F32Sub(p2.y, p1.y), dx |-> F32Sub(p2.x, p1.x)]

\* the quarter of (-180, 180] an angle lies in: below 0, 0, above 0, 180
AngleRank(a) ==
    IF a.dy[1] < 0 THEN 0
    ELSE IF a.dy[1] > 0 THEN 2
    ELSE IF a.dx[1] >= 0 THEN 1
    ELSE 3

\* angle_0.total_cmp(&angle_1) is Less
AngleLess(a0, a1) ==
    IF AngleRank(a0) # AngleRank(a1) THEN AngleRank(a0) < AngleRank(a1)
    ELSE IF AngleRank(a0) \in {1, 3} THEN FALSE
    ELSE ExactMulLess(a0.dy, a1.dx, a0.dx, a1.dy)

\* Segment::points over all segments, flattened
AllPoints(segments) ==
    [i \in 1..(2 * Len(segments)) |->
        IF i % 2 = 1 THEN segments[(i + 1) \div 2].a ELSE segments[i \div 2].b]

\* the place of the i-th point in the order of the angles: behind every point
\* of a smaller angle and every earlier point of the same angle (sort_by is stable)
SortedPlace(angle, i) ==
    1 + Cardinality({j \in 1..Len(angle) :
            \/ AngleLess(angle[j], angle[i])
            \/ (j < i /\ ~AngleLess(angle[i], angle[j]))})

SortByKey(s, angle) ==
    [k \in 1..Len(s) |-> s[CHOOSE i \in 1..Len(s) : SortedPlace(angle, i) = k]]

\* sort_by(angle from origin)
SortByAngle(origin, s) ==
    SortByKey(s, [i \in 1..Len(s) |-> calculate_angle(origin, s[i])])

\* Vec::dedup: drops every element equal to its predecessor
Dedup(s) ==
    LET kept == SelectSeq([i \in 1..Len(s) |-> i],
                          LAMBDA i : i = 1 \/ ~(F32Eq(s[i].x, s[i - 1].x) /\ F32Eq(s[i].y, s[i - 1].y)))
    IN  [k \in 1..Len(kept) |-> s[kept[k]]]

\* step 1: the candidate points
CandidatePoints(origin, segments) == Dedup(SortByAngle(origin, AllPoints(segments)))

NoHit == [nearest_intersection |-> None, nearest_distance |-> F32Max, hit_segment |-> None]

\* the update with <= written for <
NearerAtOrEqual(before, segment, intersection, distance_to_intersection) ==
    IF F32Leq(distance_to_intersection, before.nearest_distance)
    THEN [nearest_intersection |-> intersection,
          nearest_distance |-> distance_to_intersection,
          hit_segment |-> segment]
    ELSE before

\* the update of the nearest hit by an intersection at the given distance
NearerAt(before, segment, intersection, distance_to_intersection) ==
    IF F32Less(distance_to_intersection, before.nearest_distance)
    THEN [nearest_intersection |-> intersection,
          nearest_distance |-> distance_to_intersection,
          hit_segment |-> segment]
    ELSE before

\* the body of the loop over the segments
Nearer(origin, before, segment, status) ==
    IF status.kind # "Intersecting" THEN before
    ELSE NearerAt(before, segment, status.point, calculate_distance(origin, status.point))

\* the loop over the segments, up to segment n: the nearest Intersecting point
\* of the ray, its distance, and the segment it lies on
RECURSIVE NearestHit(_, _, _, _)
NearestHit(origin, ray, segments, n) ==
    IF n = 0 THEN NoHit
    ELSE Nearer(origin, NearestHit(origin, ray, segments, n - 1), segments[n],
                Ray_calculate_intersection(ray, segments[n]))

\* the ray of the first loop toward a candidate point
origin_to_point(origin, point) == Ray(origin, VecSub(point, origin))

\* the first loop: for every candidate point, in order, the point and the
\* nearest hit of its ray; then the pushed intersections and extra rays
DirectHits(origin, segments, points) ==
    [n \in 1..Len(points) |->
        [point |-> points[n],
         hit   |-> NearestHit(origin, origin_to_point(origin, points[n]), segments, Len(segments))]]

DirectIntersections(hits) ==
    LET found == SelectSeq(hits, LAMBDA h : h.hit.nearest_intersection # None)
    IN  [k \in 1..Len(found) |-> found[k].hit.nearest_intersection]

\* the extra rays when every candidate with a hit schedules them
ExtraRaysOfEveryHit(origin, hits) ==
    LET reached == SelectSeq(hits, LAMBDA h : h.hit.nearest_intersection # None)
    IN  [k \in 1..(2 * Len(reached)) |->
            LET h == reached[(k + 1) \div 2]
            IN  <<h.hit.hit_segment,
                  rotate(origin_to_point(origin, h.point),
                         IF k % 2 = 1 THEN F32Neg(Rad001) ELSE Rad001)>>]

\* the extra rays pushed by the first loop: two for every candidate point
\* that its own ray reached
ExtraRays(origin, hits) ==
    LET reached == SelectSeq(hits, LAMBDA h : h.hit.nearest_intersection = h.point)
    IN  [k \in 1..(2 * Len(reached)) |->
            LET h == reached[(k + 1) \div 2]
            IN  <<h.hit.hit_segment,
                  rotate(origin_to_point(origin, h.point),
                         IF k % 2 = 1 THEN F32Neg(Rad001) ELSE Rad001)>>]

\* the second loop: the nearest hit of every extra ray
ExtraHits(origin, segments, extra_rays) ==
    [n \in 1..Len(extra_rays) |->
        [original_segment |-> extra_rays[n][1],
         hit |-> NearestHit(origin, extra_rays[n][2], segments, Len(segments))]]

\* every hit of the second loop, whatever segment it lies on
AllExtraHits(hits) ==
    LET found == SelectSeq(hits, LAMBDA h : h.hit.nearest_intersection # None)
    IN  [k \in 1..Len(found) |-> found[k].hit.nearest_intersection]

\* the hits pushed by the second loop: those on another segment than the one
\* recorded with the ray
KeptExtraHits(hits) ==
    LET found == SelectSeq(hits, LAMBDA h : /\ h.hit.nearest_intersection # None
                                            /\ h.hit.hit_segment # h.original_segment)
    IN  [k \in 1..Len(found) |-> found[k].hit.nearest_intersection]

\* the second loop with the test hit_segment != original_segment left out
ExtraIntersectionsAnySegment(origin, segments, extra_rays) ==
    AllExtraHits(ExtraHits(origin, segments, extra_rays))

\* the second loop
ExtraIntersections(origin, segments, extra_rays) ==
    KeptExtraHits(ExtraHits(origin, segments, extra_rays))

\* `intersections` after both loops, from the hits of the first
AfterFirstLoop(origin, segments, hits) ==
    DirectIntersections(hits) \o ExtraIntersections(origin, segments, ExtraRays(origin, hits))

\* the vector `intersections` after both loops, before it is sorted
intersections(origin, segments) ==
    AfterFirstLoop(origin, segments,
                   DirectHits(origin, segments, CandidatePoints(origin, segments)))

\* calculate_intersection_points with the final sort left out
calculate_intersection_points_unsorted(origin, segments) ==
    intersections(origin, segments)

\* calculate_intersection_points
calculate_intersection_points(origin, segments) ==
    SortByAngle(origin, intersections(origin, segments))

\* ------------------------------------------------------------------------
\* raycast
\* ------------------------------------------------------------------------
Triangle(a, b, c) == [a |-> a, b |-> b, c |-> c]

\* (v.x, v.y)
Coords(v) == <<v.x, v.y>>

\* the triangles of windows(2), in the order of the windows
WindowTriangles(o, points) ==
    [i \in 1..(Len(points) - 1) |-> Triangle(Coords(o), Coords(points[i]), Coords(points[i + 1]))]

\* the pushed triangle with first and last exchanged
LastFirstTriangle(o, points) ==
    Triangle(Coords(o), Coords(points[Len(points)]), Coords(points[1]))

\* the triangle pushed at the end, from first and last
FirstLastTriangle(o, points) ==
    Triangle(Coords(o), Coords(points[1]), Coords(points[Len(points)]))

\* raycast after its call of calculate_intersection_points, for a sequence
\* that has a first and a last point
Fan(o, points) == Append(WindowTriangles(o, points), FirstLastTriangle(o, points))

\* ------------------------------------------------------------------------
\* Exact plane geometry on integer points, for stating the properties
\* ------------------------------------------------------------------------
\* the integer an f32 value with a non-negative exponent stands for
IntOf(a) == a[1] * (2 ^ a[2])

PX(p) == IntOf(p.x)

PY(p) == IntOf(p.y)

\* twice the signed area of the triangle a, b, c
Orient(a, b, c) ==
    (PX(b) - PX(a)) * (PY(c) - PY(a)) - (PY(b) - PY(a)) * (PX(c) - PX(a))

NonZeroLength(s) == s.a # s.b

\* c lies on the closed segment s
OnSegment(c, s) ==
    /\ Orient(s.a, s.b, c) = 0
    /\ (PX(c) - PX(s.a)) * (PX(c) - PX(s.b)) <= 0
    /\ (PY(c) - PY(s.a)) * (PY(c) - PY(s.b)) <= 0

\* s0 and s1 have non-zero length and lie on one infinite line
SameLine(s0, s1) ==
    /\ NonZeroLength(s0)
    /\ NonZeroLength(s1)
    /\ Orient(s0.a, s0.b, s1.a) = 0
    /\ Orient(s0.a, s0.b, s1.b) = 0

\* the directions of s0 and s1 are not parallel
NonParallel(s0, s1) ==
    (PX(s0.b) - PX(s0.a)) * (PY(s1.b) - PY(s1.a)) # (PY(s0.b) - PY(s0.a)) * (PX(s1.b) - PX(s1.a))

\* two segments on one line share a point iff an endpoint of one lies on the other
ExtentsSharePoint(s0, s1) ==
    OnSegment(s1.a, s0) \/ OnSegment(s1.b, s0) \/ OnSegment(s0.a, s1) \/ OnSegment(s0.b, s1)

\* the crossing point of the lines of two non-parallel segments lies in both closed extents
CrossInside(s0, s1) ==
    /\ Sign(Orient(s0.a, s0.b, s1.a)) * Sign(Orient(s0.a, s0.b, s1.b)) <= 0
    /\ Sign(Orient(s1.a, s1.b, s0.a)) * Sign(Orient(s1.a, s1.b, s0.b)) <= 0

\* ... and strictly inside both
CrossStrictlyInside(s0, s1) ==
    /\ Sign(Orient(s0.a, s0.b, s1.a)) * Sign(Orient(s0.a, s0.b, s1.b)) < 0
    /\ Sign(Orient(s1.a, s1.b, s0.a)) * Sign(Orient(s1.a, s1.b, s0.b)) < 0

Swapped(s) == Seg(s.b, s.a)

\* ------------------------------------------------------------------------
\* State
\* ------------------------------------------------------------------------
VARIABLES
    pc,          \* position of the caller: "call" before, "done" after the
                 \* call returned, "panicked" after it panicked
    seg_self,    \* receiver of Segment::calculate_intersection
    seg_other,   \* its argument
    seg_result,  \* the IntersectionStatus it returned
    ray_self,    \* receiver of Ray::calculate_intersection
    ray_segment, \* its argument
    ray_result,  \* the IntersectionStatus it returned
    origin,      \* argument of calculate_intersection_points
    segments,    \* argument of calculate_intersection_points
    intersection_points, \* the sequence it returned
    triangles,   \* the Vec<Triangle> raycast returned
    points,      \* calculate_intersection_points: the candidate points of step 1
    direct_hits, \* for every candidate point, in order, the nearest hit of its ray
    extra_rays,  \* the vector extra_rays after the first loop
    extra_hits,  \* for every extra ray, in order, its nearest hit
    walls,       \* the positions of the tiles of type Wall
    CursorCoordinates,  \* the resource of that name
    cursor_is_changed,  \* is_changed() of it, as update_los will see it
    previous_coordinates, \* its value when the frame began
    LineOfSight,        \* the resource of that name
    IntersectionPoints, \* the resource of that name
    ran          \* what each system did in the frame, "pending" before it runs

vars == <<pc, seg_self, seg_other, seg_result, ray_self, ray_segment, ray_result,
          origin, segments, intersection_points, triangles,
          points, direct_hits, extra_rays, extra_hits,
          walls, CursorCoordinates, cursor_is_changed, previous_coordinates,
          LineOfSight, IntersectionPoints, ran>>

frameVars == <<walls, CursorCoordinates, cursor_is_changed, previous_coordinates,
               LineOfSight, IntersectionPoints, ran>>

loopVars == <<points, direct_hits, extra_rays, extra_hits>>

\* no application around the call
NoFrames ==
    /\ walls = None
    /\ CursorCoordinates = None
    /\ cursor_is_changed = None
    /\ previous_coordinates = None
    /\ LineOfSight = None
    /\ IntersectionPoints = None
    /\ ran = None

engineVars == <<origin, segments, intersection_points>>

segVars == <<seg_self, seg_other, seg_result>>

rayVars == <<ray_self, ray_segment, ray_result>>

GridPoints == {IntVec(x, y) : x \in 0..GridX, y \in 0..GridY}

\* every Segment::new(a, b) over the grid, zero-length ones included
GridSegments == {Seg(a, b) : a \in GridPoints, b \in GridPoints}

\* ------------------------------------------------------------------------
\* Specification of the segment/segment classifier
\* ------------------------------------------------------------------------
InitSegment ==
    /\ pc = "call"
    /\ seg_self \in GridSegments
    /\ seg_other \in GridSegments
    /\ seg_result = None
    /\ ray_self = None
    /\ ray_segment = None
    /\ ray_result = None
    /\ origin = None
    /\ segments = None
    /\ intersection_points = None
    /\ triangles = None
    /\ points = None
    /\ direct_hits = None
    /\ extra_rays = None
    /\ extra_hits = None
    /\ NoFrames

CallSegmentIntersection ==
    /\ pc = "call"
    /\ seg_result' = Segment_calculate_intersection(seg_self, seg_other)
    /\ pc' = "done"
    /\ UNCHANGED <<seg_self, seg_other, rayVars, engineVars, triangles, loopVars, frameVars>>

NextSegment == CallSegmentIntersection

SpecSegment == InitSegment /\ [][NextSegment]_vars

\* ------------------------------------------------------------------------
\* Specification of the ray/segment classifier
\* ------------------------------------------------------------------------
Directions == {IntVec(x, y) : x \in -DirMax..DirMax, y \in -DirMax..DirMax}

InitRay ==
    /\ pc = "call"
    /\ ray_self \in {Ray(o, d) : o \in GridPoints, d \in Directions}
    /\ ray_segment \in GridSegments
    /\ ray_result = None
    /\ seg_self = None
    /\ seg_other = None
    /\ seg_result = None
    /\ origin = None
    /\ segments = None
    /\ intersection_points = None
    /\ triangles = None
    /\ points = None
    /\ direct_hits = None
    /\ extra_rays = None
    /\ extra_hits = None
    /\ NoFrames

CallRayIntersection ==
    /\ pc = "call"
    /\ ray_result' = Ray_calculate_intersection(ray_self, ray_segment)
    /\ pc' = "done"
    /\ UNCHANGED <<ray_self, ray_segment, segVars, engineVars, triangles, loopVars, frameVars>>

NextRay == CallRayIntersection

SpecRay == InitRay /\ [][NextRay]_vars

\* ------------------------------------------------------------------------
\* Specification of calculate_intersection_points
\* ------------------------------------------------------------------------
Scene(o, segs) == [origin |-> o, segments |-> segs]

\* the four boundary segments of a room of the given side, as update_los lists them
RoomBoundary(side) ==
    << Seg(IntVec(0, 0), IntVec(side, 0)),
       Seg(IntVec(side, 0), IntVec(side, side)),
       Seg(IntVec(side, side), IntVec(0, side)),
       Seg(IntVec(0, side), IntVec(0, 0)) >>

InnerPoints == {IntVec(x, y) : x \in 1..(RoomSize - 1), y \in 1..(RoomSize - 1)}

ObstacleSegments == {Seg(a, b) : a \in InnerPoints, b \in InnerPoints} \ {Seg(a, a) : a \in InnerPoints}

ObstacleLists == UNION {[1..n -> ObstacleSegments] : n \in 0..MaxObstacles}

\* a room with obstacles, seen from the inner grid point next to the corner
\* (0, 0); no obstacle passes through that point
RoomOrigin == IntVec(1, 1)

RoomScenes ==
    {Scene(RoomOrigin, obstacles \o RoomBoundary(RoomSize)) :
        obstacles \in {l \in ObstacleLists : \A i \in 1..Len(l) : ~OnSegment(RoomOrigin, l[i])}}

\* the square of side 10 seen from its centre: its four sides in every list
\* order and with every endpoint order
SquareSides == RoomBoundary(10)

Permutations4 == {p \in [1..4 -> 1..4] : \A i, j \in 1..4 : p[i] = p[j] => i = j}

SquareScenes ==
    {Scene(IntVec(5, 5),
           [i \in 1..4 |-> IF flip[p[i]] THEN Seg(SquareSides[p[i]].b, SquareSides[p[i]].a)
                           ELSE SquareSides[p[i]]]) :
        <<p, flip>> \in Permutations4 \X [1..4 -> BOOLEAN]}

\* triangles between a few points of the plane, seen from points strictly inside
TrianglePoints == {IntVec(6, 8), IntVec(31, 28), IntVec(17, 14), IntVec(2, 30), IntVec(30, 2)}

TriangleOrigins == {IntVec(20, 18), IntVec(16, 16), IntVec(12, 20)}

StrictlyInsideTriangle(o, a, b, c) ==
    LET s1 == Sign(Orient(a, b, o))
        s2 == Sign(Orient(b, c, o))
        s3 == Sign(Orient(c, a, o))
    IN  s1 # 0 /\ s1 = s2 /\ s2 = s3

TriangleScenes ==
    {Scene(t[4], <<Seg(t[1], t[2]), Seg(t[2], t[3]), Seg(t[3], t[1])>>) :
        t \in {t \in TrianglePoints \X TrianglePoints \X TrianglePoints \X TriangleOrigins :
                  StrictlyInsideTriangle(t[4], t[1], t[2], t[3])}}

\* a room of side 4 seen from (1, 1), with a wall of two segments that start
\* at a common point
BendPoints == {IntVec(2, 2), IntVec(3, 3), IntVec(1, 3), IntVec(3, 1), IntVec(2, 3)}

BendScenes ==
    {Scene(IntVec(1, 1), <<Seg(t[1], t[2]), Seg(t[1], t[3])>> \o RoomBoundary(4)) :
        t \in {t \in BendPoints \X BendPoints \X BendPoints :
                  t[1] # t[2] /\ t[1] # t[3] /\ t[2] # t[3]}}

Scenes == RoomScenes \cup SquareScenes \cup TriangleScenes \cup BendScenes

Init ==
    /\ pc = "call"
    /\ \E sc \in Scenes : origin = sc.origin /\ segments = sc.segments
    /\ intersection_points = None
    /\ triangles = None
    /\ points = None
    /\ direct_hits = None
    /\ extra_rays = None
    /\ extra_hits = None
    /\ NoFrames
    /\ seg_self = None
    /\ seg_other = None
    /\ seg_result = None
    /\ ray_self = None
    /\ ray_segment = None
    /\ ray_result = None

CallCalculateIntersectionPoints ==
    /\ pc = "call"
    /\ intersection_points' = calculate_intersection_points(origin, segments)
    /\ pc' = "done"
    /\ UNCHANGED <<origin, segments, segVars, rayVars, triangles, loopVars, frameVars>>

Next == CallCalculateIntersectionPoints

Spec == Init /\ [][Next]_vars

\* ------------------------------------------------------------------------
\* Specification of the two loops of calculate_intersection_points
\* ------------------------------------------------------------------------
\* the scenes with at most one obstacle in the room
LoopScenes ==
    {sc \in RoomScenes : Len(sc.segments) <= 5} \cup SquareScenes \cup TriangleScenes \cup BendScenes

InitLoops ==
    /\ pc = "call"
    /\ \E sc \in LoopScenes : origin = sc.origin /\ segments = sc.segments
    /\ intersection_points = None
    /\ triangles = None
    /\ points = None
    /\ direct_hits = None
    /\ extra_rays = None
    /\ extra_hits = None
    /\ NoFrames
    /\ seg_self = None
    /\ seg_other = None
    /\ seg_result = None
    /\ ray_self = None
    /\ ray_segment = None
    /\ ray_result = None

\* the whole call, keeping what its loops computed on the way
RunCalculateIntersectionPoints ==
    /\ pc = "call"
    /\ points' = CandidatePoints(origin, segments)
    /\ direct_hits' = DirectHits(origin, segments, points')
    /\ extra_rays' = ExtraRays(origin, direct_hits')
    /\ extra_hits' = ExtraHits(origin, segments, extra_rays')
    /\ intersection_points' =
          SortByAngle(origin, DirectIntersections(direct_hits') \o KeptExtraHits(extra_hits'))
    /\ pc' = "done"
    /\ UNCHANGED <<origin, segments, segVars, rayVars, triangles, frameVars>>

NextLoops == RunCalculateIntersectionPoints

SpecLoops == InitLoops /\ [][NextLoops]_vars

\* ------------------------------------------------------------------------
\* Specification of raycast
\* ------------------------------------------------------------------------
\* one segment of non-zero length over the grid, seen from a grid point not on it
LoneSegmentScenes ==
    {Scene(o, <<s>>) : <<o, s>> \in {os \in GridPoints \X GridSegments :
                                         NonZeroLength(os[2]) /\ ~OnSegment(os[1], os[2])}}

\* no segment at all
EmptyScenes == {Scene(o, << >>) : o \in GridPoints}

RaycastScenes == LoneSegmentScenes \cup EmptyScenes \cup SquareScenes \cup TriangleScenes

InitRaycast ==
    /\ pc = "call"
    /\ \E sc \in RaycastScenes : origin = sc.origin /\ segments = sc.segments
    /\ intersection_points = None
    /\ triangles = None
    /\ points = None
    /\ direct_hits = None
    /\ extra_rays = None
    /\ extra_hits = None
    /\ NoFrames
    /\ seg_self = None
    /\ seg_other = None
    /\ seg_result = None
    /\ ray_self = None
    /\ ray_segment = None
    /\ ray_result = None

\* raycast returns its triangles
RaycastReturns ==
    /\ pc = "call"
    /\ intersection_points' = calculate_intersection_points(origin, segments)
    /\ intersection_points' # << >>
    /\ triangles' = Fan(origin, intersection_points')
    /\ pc' = "done"
    /\ UNCHANGED <<origin, segments, segVars, rayVars, loopVars, frameVars>>

\* raycast panics at first().unwrap(): the sequence is empty
RaycastPanics ==
    /\ pc = "call"
    /\ intersection_points' = calculate_intersection_points(origin, segments)
    /\ intersection_points' = << >>
    /\ pc' = "panicked"
    /\ UNCHANGED <<triangles, origin, segments, segVars, rayVars, loopVars, frameVars>>

CallRaycast == RaycastReturns \/ RaycastPanics

NextRaycast == CallRaycast

SpecRaycast == InitRaycast /\ [][NextRaycast]_vars

\* ------------------------------------------------------------------------
\* Specification of the frames of the application: update_cursor_position
\* and update_los run once a frame, in an order the schedule does not fix
\* ------------------------------------------------------------------------
TILE_SIZE == 32

\* the map has MAP_WIDTH x MAP_HEIGHT tiles
MAP_WIDTH == 30

MAP_HEIGHT == 30

\* Tile::get_edges for the tile at position pos = <<x, y>>, from its centre
\* (x, y) and diff
TileEdges(x, y, diff) ==
    << Seg(Vec(F32Sub(x, diff), F32Add(y, diff)), Vec(F32Add(x, diff), F32Add(y, diff))),
       Seg(Vec(F32Add(x, diff), F32Add(y, diff)), Vec(F32Add(x, diff), F32Sub(y, diff))),
       Seg(Vec(F32Add(x, diff), F32Sub(y, diff)), Vec(F32Sub(x, diff), F32Sub(y, diff))),
       Seg(Vec(F32Sub(x, diff), F32Sub(y, diff)), Vec(F32Sub(x, diff), F32Add(y, diff))) >>

get_edges(pos) ==
    TileEdges(F32Mul(F(pos[1]), F(TILE_SIZE)), F32Mul(F(pos[2]), F(TILE_SIZE)),
              F32Div(F(TILE_SIZE), F(2)))

\* the position of the k-th tile spawn_map spawns, k in 1..MAP_WIDTH * MAP_HEIGHT
TilePosition(k) == <<(k - 1) % MAP_WIDTH, (k - 1) \div MAP_WIDTH>>

\* the edges of the wall tiles among the tiles first..last, in the order of
\* the tiles
RECURSIVE WallEdges(_, _, _)
WallEdges(ws, first, last) ==
    IF first > last THEN << >>
    ELSE IF first = last THEN (IF first \in ws THEN get_edges(TilePosition(first)) ELSE << >>)
    ELSE WallEdges(ws, first, (first + last) \div 2) \o WallEdges(ws, (first + last) \div 2 + 1, last)

\* the four segments update_los appends: the rectangle from (0, 0) to (w, h)
BoundarySegments(w, h) ==
    << Seg(Vec(Zero, Zero), Vec(w, Zero)),
       Seg(Vec(w, Zero), Vec(w, h)),
       Seg(Vec(w, h), Vec(Zero, h)),
       Seg(Vec(Zero, h), Vec(Zero, Zero)) >>

\* `lines` of update_los
Lines(ws) ==
    WallEdges(ws, 1, MAP_WIDTH * MAP_HEIGHT)
        \o BoundarySegments(F32Mul(F(MAP_WIDTH), F(TILE_SIZE)), F32Mul(F(MAP_HEIGHT), F(TILE_SIZE)))

\* the value update_los would have written to IntersectionPoints
PointLines(o, pts) == [i \in 1..Len(pts) |-> <<Coords(o), Coords(pts[i])>>]

\* the tiles that spawn_map may make a wall, by number: those at the
\* positions (0, 0), (1, 0), (0, 1) and (1, 1)
WallTiles == {1, 2, MAP_WIDTH + 1, MAP_WIDTH + 2}

\* the sets of wall tiles spawn_map may have drawn
WallSets == {ws \in SUBSET WallTiles : Cardinality(ws) <= MaxWalls}

\* world positions the cursor may be at: one inside the boundary, one on it,
\* one outside, and one inside near the corner (0, 0) whose coordinates
\* 2.7390425 and 2.7738829 are no grid values
CursorPositions ==
    {IntVec(8, 24), IntVec(0, 24), IntVec(-8, 24), Vec(<<11488377, -22>>, <<2908627, -20>>)}

\* no system has run in the frame
Pending == [update_cursor_position |-> "pending", update_los |-> "pending"]

\* mouse_coordinates.is_changed() reporting a change at every run
AlwaysChanged(changed) == TRUE

\* mouse_coordinates.is_changed(): the resource was inserted or written since
\* update_los last ran
is_changed(changed) == changed

InitFrames ==
    /\ pc = "frames"
    /\ walls \in WallSets
    /\ CursorCoordinates = Vec(Zero, Zero)
    /\ cursor_is_changed = TRUE
    /\ previous_coordinates = Vec(Zero, Zero)
    /\ LineOfSight = << >>
    /\ IntersectionPoints = << >>
    /\ ran = Pending
    /\ origin = None
    /\ segments = None
    /\ intersection_points = None
    /\ triangles = None
    /\ points = None
    /\ direct_hits = None
    /\ extra_rays = None
    /\ extra_hits = None
    /\ seg_self = None
    /\ seg_other = None
    /\ seg_result = None
    /\ ray_self = None
    /\ ray_segment = None
    /\ ray_result = None

\* update_cursor_position: the window reports no cursor, or the cursor at a
\* position of the world
UpdateCursorPosition ==
    /\ pc = "frames"
    /\ ran.update_cursor_position = "pending"
    /\ \E world_pos \in {None} \cup CursorPositions :
          IF world_pos # None /\ world_pos # CursorCoordinates
          THEN /\ CursorCoordinates' = world_pos
               /\ cursor_is_changed' = TRUE
               /\ ran' = [ran EXCEPT !.update_cursor_position = "wrote"]
          ELSE /\ ran' = [ran EXCEPT !.update_cursor_position = "kept"]
               /\ UNCHANGED <<CursorCoordinates, cursor_is_changed>>
    /\ UNCHANGED <<walls, previous_coordinates, LineOfSight, IntersectionPoints, pc,
                   engineVars, triangles, loopVars, segVars, rayVars>>

\* update_los: returns at once unless the coordinates are changed; else calls
\* raycast, which may panic, and stores its triangles
UpdateLos ==
    /\ pc = "frames"
    /\ ran.update_los = "pending"
    /\ cursor_is_changed' = FALSE
    /\ IF ~is_changed(cursor_is_changed)
       THEN /\ ran' = [ran EXCEPT !.update_los = "returned"]
            /\ UNCHANGED <<LineOfSight, pc, engineVars, triangles>>
       ELSE /\ ran' = [ran EXCEPT !.update_los = "recomputed"]
            /\ origin' = CursorCoordinates
            /\ segments' = Lines(walls)
            /\ intersection_points' = calculate_intersection_points(origin', segments')
            /\ IF intersection_points' = << >>
               THEN pc' = "panicked" /\ UNCHANGED <<LineOfSight, triangles>>
               ELSE /\ triangles' = Fan(origin', intersection_points')
                    /\ LineOfSight' = triangles'
                    /\ pc' = pc
    /\ UNCHANGED <<walls, CursorCoordinates, previous_coordinates, IntersectionPoints,
                   loopVars, segVars, rayVars>>

\* every system has run: the next frame begins
NextFrame ==
    /\ pc = "frames"
    /\ ran.update_cursor_position # "pending"
    /\ ran.update_los # "pending"
    /\ ran' = Pending
    /\ previous_coordinates' = CursorCoordinates
    /\ UNCHANGED <<walls, CursorCoordinates, cursor_is_changed, LineOfSight, IntersectionPoints,
                   pc, engineVars, triangles, loopVars, segVars, rayVars>>

NextFrames == UpdateCursorPosition \/ UpdateLos \/ NextFrame

SpecFrames == InitFrames /\ [][NextFrames]_vars

\* ------------------------------------------------------------------------
\* Properties of Segment::calculate_intersection (SpecSegment)
\* ------------------------------------------------------------------------
\* C5: two non-zero-length segments on the same infinite line are classified
\* CollinearIntersecting exactly when their finite extents share a point, and
\* CollinearNotIntersecting otherwise, whatever the endpoint order.
C5_CollinearOverlapClassified ==
    (pc = "done" /\ SameLine(seg_self, seg_other)) =>
        seg_result = IF ExtentsSharePoint(seg_self, seg_other)
                     THEN CollinearIntersecting
                     ELSE CollinearNotIntersecting

\* C6: swapping the two endpoints of `other` does not change the result.
C6_OtherEndpointOrderIrrelevant ==
    pc = "done" =>
        seg_result = Segment_calculate_intersection(seg_self, Swapped(seg_other))

\* C7 (its classification part): two non-parallel segments give Intersecting
\* exactly when the crossing point of their lines lies in the closed extent of
\* both, and NotIntersecting otherwise; two parallel segments on different
\* lines give NotIntersecting.
C7_CrossingClassified ==
    pc = "done" =>
        /\ NonParallel(seg_self, seg_other) =>
              IF CrossInside(seg_self, seg_other)
              THEN seg_result.kind = "Intersecting"
              ELSE seg_result = NotIntersecting
        /\ (/\ NonZeroLength(seg_self)
            /\ NonZeroLength(seg_other)
            /\ ~NonParallel(seg_self, seg_other)
            /\ ~SameLine(seg_self, seg_other)) => seg_result = NotIntersecting

\* C8 as stated: every segment intersected with itself is CollinearIntersecting.
C8_SelfIntersectionAnySegment ==
    (pc = "done" /\ seg_other = seg_self) => seg_result = CollinearIntersecting

\* C8 amended: every segment of non-zero length intersected with itself is
\* CollinearIntersecting.
C8_SelfIntersection ==
    (pc = "done" /\ seg_other = seg_self /\ NonZeroLength(seg_self)) =>
        seg_result = CollinearIntersecting

C8_Witness ==
    /\ pc = "done"
    /\ seg_other = seg_self
    /\ NonZeroLength(seg_self)
    /\ seg_result = CollinearIntersecting

\* C9: two non-parallel segments that cross strictly inside both extents
\* report the same Intersecting(point) in both argument orders.
C9_SymmetricIntersection ==
    (pc = "done" /\ NonParallel(seg_self, seg_other) /\ CrossStrictlyInside(seg_self, seg_other)) =>
        /\ seg_result.kind = "Intersecting"
        /\ Segment_calculate_intersection(seg_other, seg_self) = seg_result

\* ------------------------------------------------------------------------
\* Properties of Ray::calculate_intersection (SpecRay)
\* ------------------------------------------------------------------------
\* the ray's direction and the segment's direction are not parallel
RayNonParallel(ray, s) ==
    PX(ray.direction) * (PY(s.b) - PY(s.a)) # PY(ray.direction) * (PX(s.b) - PX(s.a))

\* r x s, (q - p) x s and (q - p) x r in integers: t = TNum / Den, u = UNum / Den
Den(ray, s) ==
    PX(ray.direction) * (PY(s.b) - PY(s.a)) - PY(ray.direction) * (PX(s.b) - PX(s.a))

TNum(ray, s) ==
    (PX(s.a) - PX(ray.origin)) * (PY(s.b) - PY(s.a)) - (PY(s.a) - PY(ray.origin)) * (PX(s.b) - PX(s.a))

UNum(ray, s) ==
    (PX(s.a) - PX(ray.origin)) * PY(ray.direction) - (PY(s.a) - PY(ray.origin)) * PX(ray.direction)

\* t >= 0 and 0 <= u <= 1
RayHits(ray, s) ==
    /\ TNum(ray, s) * Den(ray, s) >= 0
    /\ UNum(ray, s) * Den(ray, s) >= 0
    /\ Abs(UNum(ray, s)) <= Abs(Den(ray, s))

\* C10 (its classification part): a ray and a non-parallel segment give
\* Intersecting exactly when t >= 0 and u is in [0, 1], however large t is,
\* and NotIntersecting otherwise.
C10_RayHitClassified ==
    (pc = "done" /\ RayNonParallel(ray_self, ray_segment)) =>
        IF RayHits(ray_self, ray_segment)
        THEN ray_result.kind = "Intersecting"
        ELSE ray_result = NotIntersecting

\* the segment s lies on the infinite line of the ray
OnRayLine(ray, s) ==
    /\ PX(ray.direction) * (PY(s.a) - PY(ray.origin)) = PY(ray.direction) * (PX(s.a) - PX(ray.origin))
    /\ PX(ray.direction) * (PY(s.b) - PY(ray.origin)) = PY(ray.direction) * (PX(s.b) - PX(ray.origin))

\* the point c is not behind the origin of the ray: (c - origin) . direction >= 0
AheadOfOrigin(ray, c) ==
    (PX(c) - PX(ray.origin)) * PX(ray.direction) + (PY(c) - PY(ray.origin)) * PY(ray.direction) >= 0

\* a segment on the line of the ray shares a point with the half-line iff one
\* of its endpoints is not behind the origin
SharesPointWithHalfLine(ray, s) == AheadOfOrigin(ray, s.a) \/ AheadOfOrigin(ray, s.b)

\* the same ray with a direction vector twice as long
Lengthened(ray) == Ray(ray.origin, VecMul(ray.direction, F(2)))

\* C11: for a ray of non-zero direction and a non-zero-length segment on the
\* ray's infinite line the result is CollinearIntersecting exactly when the
\* segment shares a point with the half-line from the origin in the direction,
\* and CollinearNotIntersecting otherwise; the length of the direction vector
\* does not change the result.
C11_RayCollinearClassified ==
    (/\ pc = "done"
     /\ ray_self.direction # IntVec(0, 0)
     /\ NonZeroLength(ray_segment)
     /\ OnRayLine(ray_self, ray_segment)) =>
        /\ ray_result = IF SharesPointWithHalfLine(ray_self, ray_segment)
                        THEN CollinearIntersecting
                        ELSE CollinearNotIntersecting
        /\ ray_result = Ray_calculate_intersection(Lengthened(ray_self), ray_segment)

\* ------------------------------------------------------------------------
\* Properties of calculate_intersection_points (Spec)
\* ------------------------------------------------------------------------
\* the returned sequence s is ascending in the angle around o
SortedByAngle(o, s) ==
    \A i, j \in 1..Len(s) :
        i < j => ~AngleLess(calculate_angle(o, s[j]), calculate_angle(o, s[i]))

\* C1: for every origin and every list of segments the returned sequence is
\* sorted in ascending order of the angle atan2(dy, dx) of each point
\* relative to the origin.
C1_SortedByAngle ==
    pc = "done" => SortedByAngle(origin, intersection_points)

\* a call whose collected intersections were not in angle order before the final sort
C1_Witness ==
    /\ pc = "done"
    /\ Len(intersection_points) >= 3
    /\ ~SortedByAngle(origin, intersections(origin, segments))
    /\ SortedByAngle(origin, intersection_points)

\* C2: the returned sequence contains no two equal points.
C2_NoEqualPoints ==
    pc = "done" =>
        \A i, j \in 1..Len(intersection_points) :
            i # j => intersection_points[i] # intersection_points[j]

\* the scene is the square of side 10, four segments, seen from its centre
IsSquareScene ==
    /\ origin = IntVec(5, 5)
    /\ Len(segments) = 4
    /\ \A i \in 1..4 : \E k \in 1..4 : segments[k] \in {SquareSides[i], Swapped(SquareSides[i])}

Corners == {IntVec(0, 0), IntVec(10, 0), IntVec(10, 10), IntVec(0, 10)}

\* C3 as stated: for the square of side 10 seen from its centre the result is
\* exactly the four corners, in angle order, and no other point.
C3_SquareFourCorners ==
    (pc = "done" /\ IsSquareScene) =>
        intersection_points = <<IntVec(0, 0), IntVec(10, 0), IntVec(10, 10), IntVec(0, 10)>>

\* p is not the corner c and within 1/8 of it in both coordinates
NextToCorner(p, c) ==
    /\ p # c
    /\ F32Less(F32Sub(p.x, c.x), <<1, -3>>) /\ F32Less(F32Sub(c.x, p.x), <<1, -3>>)
    /\ F32Less(F32Sub(p.y, c.y), <<1, -3>>) /\ F32Less(F32Sub(c.y, p.y), <<1, -3>>)

\* C3 amended: for the square of side 10 seen from its centre the result has
\* eight points in angle order: each of the four corners exactly once and,
\* next to each corner, exactly one further point, the hit of an extra ray.
C3_SquareCornersAndExtraHits ==
    (pc = "done" /\ IsSquareScene) =>
        /\ Len(intersection_points) = 8
        /\ SortedByAngle(origin, intersection_points)
        /\ \A c \in Corners :
              /\ Cardinality({i \in 1..8 : intersection_points[i] = c}) = 1
              /\ Cardinality({i \in 1..8 : NextToCorner(intersection_points[i], c)}) = 1

\* the square scene with its sides listed in the order of the boundary and a result
C3_Witness ==
    /\ pc = "done"
    /\ IsSquareScene
    /\ segments = SquareSides
    /\ Len(intersection_points) = 8

\* the origin lies strictly inside the closed convex boundary made of the segments of B
ConvexBoundaryAround(o, B) ==
    /\ B # {}
    /\ \A s \in B :
          /\ NonZeroLength(s)
          /\ Sign(Orient(s.a, s.b, o)) # 0
          /\ \A t \in B : \A p \in {t.a, t.b} :
                Sign(Orient(s.a, s.b, p)) \in {0, Sign(Orient(s.a, s.b, o))}
          /\ \A p \in {s.a, s.b} : Cardinality({t \in B : p \in {t.a, t.b}}) = 2

\* the precondition of C4
StrictlyEnclosed(o, segs) ==
    /\ Len(segs) > 0
    /\ \A i \in 1..Len(segs) : NonZeroLength(segs[i]) /\ ~OnSegment(o, segs[i])
    /\ \E B \in SUBSET {segs[i] : i \in 1..Len(segs)} : ConvexBoundaryAround(o, B)

\* C4: the result is non-empty whenever the segment list is non-empty, every
\* segment has non-zero length, and the origin lies strictly inside a closed
\* boundary formed by segments of the list and on no segment.
C4_NonEmptyWhenEnclosed ==
    (pc = "done" /\ StrictlyEnclosed(origin, segments)) => intersection_points # << >>

\* ------------------------------------------------------------------------
\* Properties of raycast (SpecRaycast)
\* ------------------------------------------------------------------------
\* C12: for a point sequence p0..pn of at least 2 points raycast returns the
\* triangles (origin, p_i, p_i+1) of the consecutive pairs, in sequence order,
\* followed by the closing triangle (origin, p0, pn); every triangle has the
\* origin as its vertex a, and there are as many triangles as points.
C12_FanOfConsecutivePairs ==
    (pc = "done" /\ Len(intersection_points) >= 2) =>
        /\ Len(triangles) = Len(intersection_points)
        /\ \A i \in 1..Len(triangles) : triangles[i].a = <<origin.x, origin.y>>
        /\ \A i \in 1..(Len(intersection_points) - 1) :
              /\ triangles[i].b = <<intersection_points[i].x, intersection_points[i].y>>
              /\ triangles[i].c = <<intersection_points[i + 1].x, intersection_points[i + 1].y>>
        /\ triangles[Len(triangles)].b = <<intersection_points[1].x, intersection_points[1].y>>
        /\ triangles[Len(triangles)].c =
              <<intersection_points[Len(intersection_points)].x,
                intersection_points[Len(intersection_points)].y>>

\* a returned fan of at least three points whose first and last point differ
C12_Witness ==
    /\ pc = "done"
    /\ Len(intersection_points) >= 3
    /\ Len(triangles) = Len(intersection_points)
    /\ intersection_points[1] # intersection_points[Len(intersection_points)]

\* C13: raycast fails, and returns no triangle list, whenever the point
\* sequence has fewer than 2 points, be it 0 points or exactly 1.
C13_FailsBelowTwoPoints ==
    (pc # "call" /\ Len(intersection_points) < 2) => (pc = "panicked" /\ triangles = None)

\* ------------------------------------------------------------------------
\* Properties of the steps of calculate_intersection_points (Spec, SpecLoops)
\* ------------------------------------------------------------------------
\* no two elements of the sequence s are equal
NoTwoEqual(s) == \A i, j \in 1..Len(s) : i # j => s[i] # s[j]

\* C14: after step 1 (collect the endpoints, sort them by angle, remove equal
\* adjacent points) the candidate list contains no two equal points, also
\* when a different endpoint lies at the same angle from the origin.
C14_CandidatesDistinct ==
    pc = "done" => NoTwoEqual(CandidatePoints(origin, segments))

\* the IntersectionStatus of the ray against every segment of the list
RayStatuses(ray, segs) ==
    [i \in 1..Len(segs) |-> Ray_calculate_intersection(ray, segs[i])]

\* the distance from o of every Intersecting point among them
RayDistances(o, statuses) ==
    [i \in 1..Len(statuses) |->
        IF statuses[i].kind = "Intersecting" THEN calculate_distance(o, statuses[i].point)
        ELSE None]

\* segment i is hit, no hit segment is nearer, and every hit segment before it is farther
FirstNearest(i, statuses, distances) ==
    /\ statuses[i].kind = "Intersecting"
    /\ \A j \in 1..Len(statuses) :
          statuses[j].kind = "Intersecting" =>
              /\ ~F32Less(distances[j], distances[i])
              /\ (j < i => F32Less(distances[i], distances[j]))

\* the kept hit is the point on the first nearest segment, recorded with that segment
KeptFirstNearest(hit, segs, statuses, distances) ==
    IF \A i \in 1..Len(segs) : statuses[i].kind # "Intersecting"
    THEN hit.nearest_intersection = None
    ELSE \E i \in 1..Len(segs) :
            /\ FirstNearest(i, statuses, distances)
            /\ hit.nearest_intersection = statuses[i].point
            /\ hit.hit_segment = segs[i]

KeptHitOfRay(hit, ray, o, segs, statuses) ==
    KeptFirstNearest(hit, segs, statuses, RayDistances(o, statuses))

\* C15: for every ray cast, direct or extra, the kept hit is an Intersecting
\* point of minimum distance from the origin over all segments, and the
\* segment recorded for it is the first of the list that attains this minimum.
C15_NearestHitFirstSegment ==
    pc = "done" =>
        /\ \A n \in 1..Len(direct_hits) :
              KeptHitOfRay(direct_hits[n].hit, origin_to_point(origin, direct_hits[n].point),
                           origin, segments,
                           RayStatuses(origin_to_point(origin, direct_hits[n].point), segments))
        /\ \A n \in 1..Len(extra_hits) :
              KeptHitOfRay(extra_hits[n].hit, extra_rays[n][2], origin, segments,
                           RayStatuses(extra_rays[n][2], segments))

\* two different segments are hit by the ray at the distance of the kept hit,
\* and the earlier one is recorded
TieKeepsFirst(hit, segs, statuses, distances) ==
    \E i, j \in 1..Len(segs) :
        /\ i < j
        /\ segs[i] # segs[j]
        /\ statuses[i].kind = "Intersecting"
        /\ statuses[j].kind = "Intersecting"
        /\ distances[i] = hit.nearest_distance
        /\ distances[j] = hit.nearest_distance
        /\ hit.hit_segment = segs[i]

TieOfRay(hit, o, segs, statuses) == TieKeepsFirst(hit, segs, statuses, RayDistances(o, statuses))

\* a direct ray that hits two segments at the same nearest distance
C15_Witness ==
    /\ pc = "done"
    /\ \E n \in 1..Len(direct_hits) :
          TieOfRay(direct_hits[n].hit, origin, segments,
                   RayStatuses(origin_to_point(origin, direct_hits[n].point), segments))

\* the candidates, by index, whose direct ray has its nearest hit at the candidate
Reached(pts, hits) ==
    SelectSeq([n \in 1..Len(pts) |-> n], LAMBDA n : hits[n].hit.nearest_intersection = pts[n])

\* turned is direction d turned clockwise (sign -1) or counter-clockwise (sign 1)
\* by less than a right angle
TurnedTo(d, turned, sign) ==
    /\ IF sign < 0 THEN F32Less(cross_product(d, turned), Zero)
       ELSE F32Less(Zero, cross_product(d, turned))
    /\ F32Less(Zero, dot(d, turned))

\* the two rays scheduled for the reached candidate pts[n], at 2k - 1 and 2k
\* of the list: its ray rotated by -0.01 and by +0.01, with the hit segment
AuxiliaryPair(o, first, second, point, hit) ==
    /\ first[1] = hit.hit_segment
    /\ second[1] = hit.hit_segment
    /\ first[2] = rotate(origin_to_point(o, point), F32Neg(Rad001))
    /\ second[2] = rotate(origin_to_point(o, point), Rad001)
    /\ first[2].origin = o
    /\ second[2].origin = o
    /\ TurnedTo(VecSub(point, o), first[2].direction, -1)
    /\ TurnedTo(VecSub(point, o), second[2].direction, 1)

ScheduledFor(o, pts, hits, rays, reached) ==
    /\ Len(rays) = 2 * Len(reached)
    /\ \A k \in 1..Len(reached) :
          AuxiliaryPair(o, rays[2 * k - 1], rays[2 * k], pts[reached[k]], hits[reached[k]].hit)

\* the candidate has a nearest hit that is not the candidate itself
Blocked(point, hit) == hit.nearest_intersection \notin {None, point}

\* C16: extra rays are scheduled for a candidate exactly when the nearest hit
\* of its direct ray equals the candidate, and then exactly two, the direct
\* ray rotated by -0.01 and by +0.01 radians about the same origin; a
\* candidate that is blocked or hits nothing schedules none, and a blocked
\* candidate contributes the blocking hit point.
C16_ExtraRaysForReachedCandidates ==
    pc = "done" =>
        /\ Len(direct_hits) = Len(points)
        /\ ScheduledFor(origin, points, direct_hits, extra_rays, Reached(points, direct_hits))
        /\ \A n \in 1..Len(points) :
              Blocked(points[n], direct_hits[n].hit) =>
                  \E i \in 1..Len(intersection_points) :
                      intersection_points[i] = direct_hits[n].hit.nearest_intersection

\* a call with a reached candidate, which scheduled two rays, and a blocked one
C16_Witness ==
    /\ pc = "done"
    /\ Len(extra_rays) >= 2
    /\ Len(extra_rays) < 2 * Len(points)
    /\ \E n \in 1..Len(points) : direct_hits[n].hit.nearest_intersection = points[n]
    /\ \E n \in 1..Len(points) : Blocked(points[n], direct_hits[n].hit)

\* the place in the list of the segment a ray lands on: the first nearest one
\* (0 if the ray hits nothing)
Landing(statuses, distances) ==
    IF \A i \in 1..Len(statuses) : ~FirstNearest(i, statuses, distances) THEN 0
    ELSE CHOOSE i \in 1..Len(statuses) : FirstNearest(i, statuses, distances)

LandingOf(o, statuses) == Landing(statuses, RayDistances(o, statuses))

LandsOn(o, ray, segs) == LandingOf(o, RayStatuses(ray, segs))

\* the extra rays, by index, that land on a segment at another place of the
\* list than the direct ray of their candidate; rays 2k - 1 and 2k belong to
\* the k-th reached candidate
LandElsewhere(o, segs, pts, rays, reached) ==
    SelectSeq([n \in 1..Len(rays) |-> n],
              LAMBDA n : LandsOn(o, rays[n][2], segs)
                            \notin {0, LandsOn(o, origin_to_point(o, pts[reached[(n + 1) \div 2]]), segs)})

\* the number of places of s that hold v
Count(s, v) == Cardinality({i \in 1..Len(s) : s[i] = v})

\* s and t hold the same elements the same number of times
SameElements(s, t) ==
    /\ Len(s) = Len(t)
    /\ \A i \in 1..Len(s) : Count(s, s[i]) = Count(t, s[i])

\* the output holds the hits of the direct rays and the hits of the given extra rays
OutputIs(output, direct, hits, added) ==
    SameElements(output,
                 DirectIntersections(direct)
                     \o [k \in 1..Len(added) |-> hits[added[k]].hit.nearest_intersection])

\* C17: the nearest hit of an extra ray is added to the output exactly when
\* the segment it lands on is another segment of the list than the one
\* recorded for the hit of the candidate; an extra ray that lands on the same
\* segment, or hits nothing, adds no point.
C17_ExtraHitOnOtherSegmentAdded ==
    pc = "done" =>
        OutputIs(intersection_points, direct_hits, extra_hits,
                 LandElsewhere(origin, segments, points, extra_rays, Reached(points, direct_hits)))

\* of the two extra rays of one candidate, one lands on another segment and
\* is added, the other lands on the recorded segment and is not
C17_Witness ==
    /\ pc = "done"
    /\ \E n \in 1..Len(extra_hits) :
          /\ extra_hits[n].hit.nearest_intersection # None
          /\ extra_hits[n].hit.hit_segment # extra_hits[n].original_segment
          /\ \E i \in 1..Len(intersection_points) :
                intersection_points[i] = extra_hits[n].hit.nearest_intersection
    /\ \E n \in 1..Len(extra_hits) :
          /\ extra_hits[n].hit.nearest_intersection # None
          /\ extra_hits[n].hit.hit_segment = extra_hits[n].original_segment
          /\ \A i \in 1..Len(intersection_points) :
                intersection_points[i] # extra_hits[n].hit.nearest_intersection

\* ------------------------------------------------------------------------
\* Properties of the frames (SpecFrames)
\* ------------------------------------------------------------------------
\* C18 as stated: update_los recomputes and overwrites LineOfSight only in a
\* frame in which the cursor coordinates changed from their previous value;
\* update_cursor_position writes the coordinates only when the new position
\* differs; in a frame without a change update_los leaves LineOfSight and
\* IntersectionPoints as they are.
C18_RecomputesOnlyInFrameOfChange ==
    (pc = "frames" /\ ran.update_cursor_position # "pending") =>
        /\ ran.update_cursor_position = "wrote" <=> CursorCoordinates # previous_coordinates
        /\ ran.update_los = "recomputed" => CursorCoordinates # previous_coordinates

\* the step is a run of update_los
LosRuns == ran.update_los = "pending" /\ ran'.update_los # "pending"

\* C18 amended: update_los recomputes and overwrites LineOfSight only in a
\* run that finds CursorCoordinates changed since its previous run, which is
\* so in its first run and after update_cursor_position wrote a position;
\* update_cursor_position writes only a position that differs; in every
\* other run update_los leaves LineOfSight and IntersectionPoints as they are.
C18_RecomputesOnlyWhenChanged ==
    [][/\ origin = None => cursor_is_changed
       /\ LosRuns =>
             IF cursor_is_changed
             THEN ran'.update_los = "recomputed" /\ origin' = CursorCoordinates
             ELSE /\ ran'.update_los = "returned"
                  /\ UNCHANGED <<LineOfSight, IntersectionPoints, origin, intersection_points>>
       /\ ~LosRuns => UNCHANGED <<LineOfSight, IntersectionPoints>>
       /\ cursor_is_changed' # cursor_is_changed =>
             \/ LosRuns /\ ~cursor_is_changed'
             \/ ~LosRuns /\ cursor_is_changed' /\ CursorCoordinates' # CursorCoordinates
       /\ CursorCoordinates' # CursorCoordinates => cursor_is_changed']_vars

\* a frame in which update_cursor_position wrote a position and update_los
\* then recomputed for it, after an earlier frame had left the stored result alone
C18_Witness ==
    /\ pc = "frames"
    /\ ran = [update_cursor_position |-> "wrote", update_los |-> "recomputed"]
    /\ origin = CursorCoordinates
    /\ origin \in CursorPositions
    /\ previous_coordinates \in CursorPositions
    /\ ~cursor_is_changed
    /\ LineOfSight = Fan(origin, intersection_points)

\* C19: after every recomputation both stored results, the triangles of
\* LineOfSight and the lines of IntersectionPoints, are those computed for
\* the new origin.
C19_BothResultsForNewOrigin ==
    (pc = "frames" /\ origin # None) =>
        /\ LineOfSight = Fan(origin, intersection_points)
        /\ IntersectionPoints = PointLines(origin, intersection_points)

\* ------------------------------------------------------------------------
\* Occlusion of the returned points (Spec)
\* ------------------------------------------------------------------------
\* both coordinates of p are integers
OnGrid(p) == ~IsNaN(p.x) /\ ~IsNaN(p.y) /\ p.x[2] >= 0 /\ p.y[2] >= 0

\* q lies on the segment o-p and is neither o nor p
StrictlyBetween(q, o, p) == q # o /\ q # p /\ OnSegment(q, Seg(o, p))

\* s has a point strictly between o and p: s meets the line of o-p while o
\* and p lie strictly on opposite sides of the line of s, or s lies on the
\* line of o-p with an endpoint strictly between o and p (o is not on s)
Occludes(s, o, p) ==
    \/ /\ Sign(Orient(s.a, s.b, o)) * Sign(Orient(s.a, s.b, p)) < 0
       /\ Sign(Orient(o, p, s.a)) * Sign(Orient(o, p, s.b)) <= 0
    \/ /\ Orient(o, p, s.a) = 0
       /\ Orient(o, p, s.b) = 0
       /\ StrictlyBetween(s.a, o, p) \/ StrictlyBetween(s.b, o, p)

\* the precondition of C20
OffEverySegment(o, segs) ==
    \A i \in 1..Len(segs) : NonZeroLength(segs[i]) /\ ~OnSegment(o, segs[i])

NoneOccluded(o, segs, result) ==
    \A k \in 1..Len(result) :
        OnGrid(result[k]) => \A i \in 1..Len(segs) : ~Occludes(segs[i], o, result[k])

\* C20: no returned point is occluded: for every returned point P no input
\* segment has a point strictly between the origin and P, for every input of
\* non-zero-length segments with the origin on no segment, segments on a line
\* through the origin included (stated for the returned points with integer
\* coordinates).
C20_NoReturnedPointOccluded ==
    (pc = "done" /\ OffEverySegment(origin, segments)) =>
        NoneOccluded(origin, segments, intersection_points)

\* ------------------------------------------------------------------------
\* The segments and the result of update_los (SpecFrames)
\* ------------------------------------------------------------------------
\* p lies in the closed rectangle [0, w] x [0, h]
InRectangle(p, w, h) ==
    /\ F32Leq(Zero, p.x)
    /\ F32Leq(p.x, w)
    /\ F32Leq(Zero, p.y)
    /\ F32Leq(p.y, h)

AllInRectangle(segs, w, h) ==
    \A i \in 1..Len(segs) : InRectangle(segs[i].a, w, h) /\ InRectangle(segs[i].b, w, h)

\* C21: every segment update_los passes to raycast, the edges of the wall
\* tiles included, has both endpoints in the closed boundary rectangle
\* [0, MAP_WIDTH * TILE_SIZE] x [0, MAP_HEIGHT * TILE_SIZE].
C21_WallEdgesInsideBoundary ==
    (ran # None /\ segments # None) =>
        AllInRectangle(segments, F(MAP_WIDTH * TILE_SIZE), F(MAP_HEIGHT * TILE_SIZE))

\* C22: update_los never fails: for every origin and every set of wall
\* tiles the computed point sequence is non-empty, so raycast does not panic.
C22_UpdateLosNeverFails ==
    ran # None => (pc # "panicked" /\ intersection_points # << >>)

====
